---- MODULE Spec2Model ----
(***************************************************************************)
(* Frequency statistics of a text corpus: the two programs of the          *)
(* repository, Chinese.py (ProcessingPipeline over wiki_zh) and            *)
(* SHAKESPEARE.py (LinguisticAnalyzer over three Gutenberg works).         *)
(*                                                                         *)
(* A text is a sequence of code points.  A Counter is the sequence of its  *)
(* items [key, n] in insertion order (a Python dict keeps that order, and  *)
(* most_common breaks ties by it).                                         *)
(***************************************************************************)
EXTENDS Integers, Sequences, FiniteSets

VARIABLES
    prog,        \* which program runs: "zh" (Chinese.py) or "en" (SHAKESPEARE.py)
    pc,          \* position of the main program
    i,           \* Chinese.py: number of blocks the generator has yielded
    read,        \* number of characters of the corpus read so far
    text,        \* Chinese.py: process_text's text after cleaning
    pipeline,    \* Chinese.py: the ProcessingPipeline object
    analyzer,    \* SHAKESPEARE.py: the LinguisticAnalyzer object
    results,     \* Chinese.py: the results dict of the main program
    entropy,     \* the entropies the main program has computed
    plots,       \* SHAKESPEARE.py: what create_plots has computed
    fed,         \* the blocks accumulated so far (kept by the order runs only)
    table,       \* the table given to most_common (the top-k runs only)
    k,           \* the k given to most_common (the top-k runs only)
    top          \* what most_common returned (the top-k runs only)

vars == <<prog, pc, i, read, text, pipeline, analyzer, results, entropy, plots,
          fed, table, k, top>>

----------------------------------------------------------------------------
(* Bounds of the model *)

\* the corpus holds at most MaxChars characters
MaxChars == 6

\* the wiki_zh tree holds at most MaxBlocks files
MaxBlocks == 3

\* three blocks accumulated in every order hold at most MaxOrderChars characters
MaxOrderChars == 4

MaxK == 3

MaxCount == 2

(* Code points *)

FullStop == 12290

CJKLo == 19968

CJKHi == 40869

Newline == 10

Apostrophe == 39

TopZh == 50

BarSlots == 50

TopEn == 20

NumWorks == 3

\* one ideograph inside the range, one more, the full stop, and a Latin letter
ZhAlphabet == {20013, 25991, FullStop, 120}

\* a, B, the apostrophe and the newline
EnAlphabet == {97, 66, Apostrophe, Newline}

SeqsUpTo(S, n) == UNION {[1..len -> S] : len \in 0..n}

ZhTexts(n) == SeqsUpTo(ZhAlphabet, n)

EnTexts(n) == SeqsUpTo(EnAlphabet, n)

----------------------------------------------------------------------------
(* collections.Counter *)

HasKey(counter, u) == \E j \in 1..Len(counter) : counter[j].key = u

Bump(counter, u) ==
    IF HasKey(counter, u)
    THEN [j \in 1..Len(counter) |->
            IF counter[j].key = u
            THEN [key |-> u, n |-> counter[j].n + 1]
            ELSE counter[j]]
    ELSE Append(counter, [key |-> u, n |-> 1])

RECURSIVE CountFresh(_, _)
CountFresh(counter, elems) ==
    IF elems = <<>> THEN counter
    ELSE CountFresh(
             IF \E j \in 1..Len(counter) : counter[j].key = Head(elems)
             THEN [j \in 1..Len(counter) |->
                     IF counter[j].key = Head(elems)
                     THEN [key |-> counter[j].key, n |-> counter[j].n + 1]
                     ELSE counter[j]]
             ELSE Append(counter, [key |-> Head(elems), n |-> 1]),
             Tail(elems))

\* a slip: the table is replaced by the counts of the block
UpdateReplace(counter, elems) == CountFresh(<<>>, elems)

RECURSIVE Update(_, _)
Update(counter, elems) ==
    IF elems = <<>> THEN counter
    ELSE Update(Bump(counter, Head(elems)), Tail(elems))

Keys(counter) == {counter[j].key : j \in 1..Len(counter)}

Values(counter) == [j \in 1..Len(counter) |-> counter[j].n]

Get(counter, u) ==
    IF HasKey(counter, u)
    THEN (CHOOSE it \in {counter[j] : j \in 1..Len(counter)} : it.key = u).n
    ELSE 0

RECURSIVE SumSeq(_)
SumSeq(s) == IF s = <<>> THEN 0 ELSE Head(s) + SumSeq(Tail(s))

RECURSIVE InsertAsc(_, _)
InsertAsc(sorted, x) ==
    IF sorted = <<>> THEN <<x>>
    ELSE IF Head(sorted) <= x THEN <<Head(sorted)>> \o InsertAsc(Tail(sorted), x)
    ELSE <<x>> \o sorted

\* a slip: sorted(...) without reverse=True
RECURSIVE SortedAscending(_)
SortedAscending(s) ==
    IF s = <<>> THEN <<>>
    ELSE InsertAsc(SortedAscending(SubSeq(s, 1, Len(s) - 1)), s[Len(s)])

\* sorted(..., reverse=True) on counts: stable, descending
RECURSIVE InsertDesc(_, _)
InsertDesc(sorted, x) ==
    IF sorted = <<>> THEN <<x>>
    ELSE IF Head(sorted) >= x THEN <<Head(sorted)>> \o InsertDesc(Tail(sorted), x)
    ELSE <<x>> \o sorted

RECURSIVE SortedReverse(_)
SortedReverse(s) ==
    IF s = <<>> THEN <<>>
    ELSE InsertDesc(SortedReverse(SubSeq(s, 1, Len(s) - 1)), s[Len(s)])

\* the same order on items, by count: equal counts stay in insertion order
RECURSIVE InsertItem(_, _)
InsertItem(sorted, it) ==
    IF sorted = <<>> THEN <<it>>
    ELSE IF Head(sorted).n >= it.n THEN <<Head(sorted)>> \o InsertItem(Tail(sorted), it)
    ELSE <<it>> \o sorted

RECURSIVE SortItems(_)
SortItems(counter) ==
    IF counter = <<>> THEN <<>>
    ELSE InsertItem(SortItems(SubSeq(counter, 1, Len(counter) - 1)),
                    counter[Len(counter)])

Min(a, b) == IF a < b THEN a ELSE b

\* a slip: the first n items of the table, as they come
most_common_unsorted(counter, n) ==
    SubSeq(counter, 1, IF n < Len(counter) THEN n ELSE Len(counter))

most_common(counter, n) == SubSeq(SortItems(counter), 1, Min(n, Len(counter)))

Arange(n) == [j \in 1..n |-> j]

----------------------------------------------------------------------------
(* Chinese.py: ProcessingPipeline *)

IsCJK(c) == c >= CJKLo /\ c <= CJKHi

\* re.sub(r'[^\u4e00-\u9fa5\u3002]', '', text): only the ideographs and the full stop stay
Clean(raw) == SelectSeq(raw, LAMBDA c : IsCJK(c) \/ c = FullStop)

\* text.replace(FULL STOP, '')
RemoveStops(t) == SelectSeq(t, LAMBDA c : c # FullStop)

\* text.split(FULL STOP): the fragments between full stops, the empty ones included
RECURSIVE SplitFrom(_, _)
SplitFrom(t, cur) ==
    IF t = <<>> THEN <<cur>>
    ELSE IF Head(t) = FullStop THEN <<cur>> \o SplitFrom(Tail(t), <<>>)
    ELSE SplitFrom(Tail(t), Append(cur, Head(t)))

Split(t) == SplitFrom(t, <<>>)

\* a slip: text.split(FULL STOP) with the empty fragments left in
SentencesUnfiltered(t) == Split(t)

\* [s for s in text.split(FULL STOP) if s]
Sentences(t) == SelectSeq(Split(t), LAMBDA s : s # <<>>)

\* the dictionary of the segmenter: one two-character word
JiebaDict == {<<20013, 25991>>}

\* jieba.lcut: the text cut into consecutive non-empty words, a dictionary
\* word where one starts and a single character elsewhere
RECURSIVE Lcut(_)
Lcut(t) ==
    IF t = <<>> THEN <<>>
    ELSE IF Len(t) >= 2 /\ SubSeq(t, 1, 2) \in JiebaDict
         THEN <<SubSeq(t, 1, 2)>> \o Lcut(SubSeq(t, 3, Len(t)))
         ELSE <<SubSeq(t, 1, 1)>> \o Lcut(Tail(t))

NewPipeline ==
    [char_counter |-> <<>>, word_counter |-> <<>>, sentence_counter |-> <<>>,
     total_chars |-> 0, total_words |-> 0, total_sentences |-> 0]

\* a slip: the total grows by len(text), the full stops included
CountCharsLenText(p, t) ==
    [p EXCEPT !.char_counter = Update(@, RemoveStops(t)),
              !.total_chars = @ + Len(t)]

\* a slip: the full stops are counted as characters
CountCharsKeepStops(p, t) ==
    [p EXCEPT !.char_counter = Update(@, t),
              !.total_chars = @ + Len(t)]

CountChars(p, t) ==
    LET chars == RemoveStops(t)
    IN  [p EXCEPT !.char_counter = Update(@, chars),
                  !.total_chars = @ + Len(chars)]

\* a slip: the total is assigned, not added to
CountWordsAssign(p, words) ==
    [p EXCEPT !.word_counter = Update(@, words),
              !.total_words = Len(words)]

CountWords(p, words) ==
    [p EXCEPT !.word_counter = Update(@, words),
              !.total_words = @ + Len(words)]

CountSentences(p, sentences) ==
    [p EXCEPT !.sentence_counter = Update(@, sentences),
              !.total_sentences = @ + Len(sentences)]

\* process_text on the cleaned text t
ProcessClean(p, t) ==
    CountWords(CountSentences(CountChars(p, t), Sentences(t)),
               Lcut(RemoveStops(t)))

process_text(p, raw) == ProcessClean(p, Clean(raw))

----------------------------------------------------------------------------
(* SHAKESPEARE.py: ShakespeareLoader and LinguisticAnalyzer *)

\* re.sub(r'\n{2,}', '\n', text)
RECURSIVE CollapseNewlines(_)
CollapseNewlines(raw) ==
    IF Len(raw) < 2 THEN raw
    ELSE IF raw[1] = Newline /\ raw[2] = Newline THEN CollapseNewlines(Tail(raw))
    ELSE <<raw[1]>> \o CollapseNewlines(Tail(raw))

IsUpper(c) == c >= 65 /\ c <= 90

IsLower(c) == c >= 97 /\ c <= 122

\* the whitespace that str.strip() removes, on the code points below 128
IsSpace(c) == c \in (9..13) \cup (28..32)

\* \w of a str pattern, on the code points below 128
IsWordChar(c) == IsUpper(c) \/ IsLower(c) \/ (c >= 48 /\ c <= 57) \/ c = 95

Lower(t) == [j \in 1..Len(t) |-> IF IsUpper(t[j]) THEN t[j] + 32 ELSE t[j]]

RECURSIVE LStrip(_)
LStrip(t) == IF t # <<>> /\ IsSpace(Head(t)) THEN LStrip(Tail(t)) ELSE t

RECURSIVE RStrip(_)
RStrip(t) ==
    IF t # <<>> /\ IsSpace(t[Len(t)]) THEN RStrip(SubSeq(t, 1, Len(t) - 1)) ELSE t

Strip(t) == RStrip(LStrip(t))

CleanText(t) == Strip(Lower(t))

\* re.findall(r'[a-z]', text)
FindLetters(t) == SelectSeq(t, IsLower)

\* \b at position p of t: between t[p-1] and t[p], one a word character and the
\* other not (the outside of the text is not)
Boundary(t, p) ==
    LET before == p > 1 /\ IsWordChar(t[p - 1])
        after == p <= Len(t) /\ IsWordChar(t[p])
    IN  before # after

InWord(c) == IsLower(c) \/ c = Apostrophe

\* the length of the longest run of [a-z'] starting at position p
RECURSIVE RunLen(_, _)
RunLen(t, p) == IF p <= Len(t) /\ InWord(t[p]) THEN 1 + RunLen(t, p + 1) ELSE 0

\* the match of \b[a-z']{2,}\b at position p: its length, the longest first, or 0
MatchLen(t, p) ==
    LET ends == {m \in 2..RunLen(t, p) : Boundary(t, p + m)}
    IN  IF Boundary(t, p) /\ ends # {}
        THEN CHOOSE m \in ends : \A m2 \in ends : m2 <= m
        ELSE 0

\* re.findall(r"\b[a-z']{2,}\b", text), scanning from position p
RECURSIVE FindWordsFrom(_, _)
FindWordsFrom(t, p) ==
    IF p > Len(t) THEN <<>>
    ELSE LET m == MatchLen(t, p)
         IN  IF m = 0 THEN FindWordsFrom(t, p + 1)
             ELSE <<SubSeq(t, p, p + m - 1)>> \o FindWordsFrom(t, p + m)

FindWords(t) == FindWordsFrom(t, 1)

NewAnalyzer ==
    [char_stats |-> <<>>, word_stats |-> <<>>,
     counts |-> [chars |-> 0, words |-> 0, files |-> 0]]

AnalyzeChars(a, t) ==
    LET chars == FindLetters(t)
    IN  [a EXCEPT !.char_stats = Update(@, chars),
                  !.counts.chars = @ + Len(chars)]

AnalyzeWords(a, t) ==
    LET words == FindWords(t)
    IN  [a EXCEPT !.word_stats = Update(@, words),
                  !.counts.words = @ + Len(words)]

\* process on the cleaned text t
ProcessCleanText(a, t) ==
    [AnalyzeWords(AnalyzeChars(a, t), t) EXCEPT !.counts.files = @ + 1]

process(a, block) == ProcessCleanText(a, CleanText(block))

----------------------------------------------------------------------------
(* calculate_entropy.  A smoothed probability (count + alpha) / (total +      *)
(* alpha * len(counter)) is kept as its numerator and denominator, each a     *)
(* pair <<a, b>> standing for a + b * alpha with alpha > 0.  The float that   *)
(* is returned is 0.0 minus the sum of p * log2(p) over probs: it is 0.0      *)
(* itself when probs is empty.                                                *)

\* the division raises when total + alpha * len(counter) is zero
DivRaises(total, size) == total = 0 /\ size = 0

\* a slip: the denominator is inverted once, before the loop
calculate_entropy_hoisted(counter, total) ==
    [raised |-> DivRaises(total, Len(counter)),
     probs |-> [j \in 1..Len(counter) |->
                  [num |-> <<counter[j].n, 1>>, den |-> <<total, Len(counter)>>]]]

calculate_entropy(counter, total) ==
    [raised |-> \E j \in 1..Len(counter) : DivRaises(total, Len(counter)),
     probs |-> [j \in 1..Len(counter) |->
                  [num |-> <<counter[j].n, 1>>, den |-> <<total, Len(counter)>>]]]

NoEntropy == [raised |-> FALSE, probs |-> <<>>]

----------------------------------------------------------------------------
(* The end of the run *)

\* (np.arange(1, len(counter) + 1), sorted(counter.values(), reverse=True))
Zipf(counter) == <<Arange(Len(counter)), SortedReverse(Values(counter))>>

NoResults ==
    [char_top50 |-> <<>>, word_top50 |-> <<>>,
     char_zipf |-> <<<<>>, <<>>>>, word_zipf |-> <<<<>>, <<>>>>]

Results(p) ==
    [char_top50 |-> most_common(p.char_counter, TopZh),
     word_top50 |-> most_common(p.word_counter, TopZh),
     char_zipf |-> Zipf(p.char_counter),
     word_zipf |-> Zipf(p.word_counter)]

\* Axes.bar(range(slots), heights, tick_label=labels) broadcasts heights and
\* labels against the slots: one value or one per slot, anything else raises
BarRaises(slots, items) == Len(items) \notin {1, slots}

plot_combined_raises(r) ==
    BarRaises(BarSlots, r.char_top50) \/ BarRaises(BarSlots, r.word_top50)

NoEntropies == [char |-> NoEntropy, word |-> NoEntropy, sentence |-> NoEntropy]

ZhEntropies(p) ==
    [char |-> calculate_entropy(p.char_counter, p.total_chars),
     word |-> calculate_entropy(p.word_counter, p.total_words),
     sentence |-> calculate_entropy(p.sentence_counter, p.total_sentences)]

EnEntropies(a) ==
    [char |-> calculate_entropy(a.char_stats, a.counts.chars),
     word |-> calculate_entropy(a.word_stats, a.counts.words),
     sentence |-> NoEntropy]

EntropyRaised(e) == e.char.raised \/ e.word.raised \/ e.sentence.raised

NoPlots ==
    [raised |-> FALSE, char_top |-> <<>>, word_top |-> <<>>,
     char_zipf |-> <<<<>>, <<>>>>, word_zipf |-> <<<<>>, <<>>>>]

\* chars, counts = zip(*items) raises when items is empty
ZipRaises(items) == items = <<>>

create_plots(a) ==
    LET char_top == most_common(a.char_stats, TopEn)
        word_top == most_common(a.word_stats, TopEn)
    IN  IF ZipRaises(char_top) THEN [NoPlots EXCEPT !.raised = TRUE]
        ELSE IF ZipRaises(word_top)
             THEN [NoPlots EXCEPT !.raised = TRUE, !.char_top = char_top]
             ELSE [raised |-> FALSE, char_top |-> char_top, word_top |-> word_top,
                   char_zipf |-> Zipf(a.char_stats),
                   word_zipf |-> Zipf(a.word_stats)]

----------------------------------------------------------------------------
(* The main programs *)

Init ==
    /\ prog \in {"zh", "en"}
    /\ pc = "loop"
    /\ i = 0
    /\ read = 0
    /\ text = <<>>
    /\ pipeline = NewPipeline
    /\ analyzer = NewAnalyzer
    /\ results = NoResults
    /\ entropy = NoEntropies
    /\ plots = NoPlots
    /\ fed = <<>>
    /\ table = <<>>
    /\ k = 0
    /\ top = <<>>

\* iter_wiki_files yields the next file that exists (the text as decoded, the
\* bytes that do not decode already dropped) and the loop body accumulates it
ZhYield ==
    /\ prog = "zh" /\ pc = "loop" /\ i < MaxBlocks
    /\ \E raw \in ZhTexts(MaxChars - read) :
         /\ text' = Clean(raw)
         /\ pipeline' = process_text(pipeline, raw)
         /\ read' = read + Len(raw)
    /\ i' = i + 1
    /\ UNCHANGED <<prog, pc, analyzer, results, entropy, plots, fed, table, k, top>>

\* open() raises on a file that exists and cannot be opened: nothing catches it
ZhReadError ==
    /\ prog = "zh" /\ pc = "loop" /\ i < MaxBlocks
    /\ pc' = "aborted"
    /\ UNCHANGED <<prog, i, read, text, pipeline, analyzer, results, entropy, plots,
                   fed, table, k, top>>

\* the generator is exhausted: results, the three entropies, plot_combined
ZhReport ==
    /\ prog = "zh" /\ pc = "loop"
    /\ results' = Results(pipeline)
    /\ entropy' = ZhEntropies(pipeline)
    /\ pc' = IF EntropyRaised(entropy') THEN "entropy_raised"
             ELSE IF plot_combined_raises(results') THEN "plot_raised"
             ELSE "done"
    /\ UNCHANGED <<prog, i, read, text, pipeline, analyzer, plots, fed, table, k, top>>

\* stream_text yields the next work and the loop body accumulates it
EnYield ==
    /\ prog = "en" /\ pc = "loop" /\ analyzer.counts.files < NumWorks
    /\ \E raw \in EnTexts(MaxChars - read) :
         /\ analyzer' = process(analyzer, CollapseNewlines(raw))
         /\ read' = read + Len(raw)
    /\ UNCHANGED <<prog, pc, i, text, pipeline, results, entropy, plots, fed,
                   table, k, top>>

\* gutenberg.raw raises on a work it cannot read: nothing catches it
EnReadError ==
    /\ prog = "en" /\ pc = "loop" /\ analyzer.counts.files < NumWorks
    /\ pc' = "aborted"
    /\ UNCHANGED <<prog, i, read, text, pipeline, analyzer, results, entropy, plots,
                   fed, table, k, top>>

\* the three works are done: the printed entropies, then create_plots
EnReport ==
    /\ prog = "en" /\ pc = "loop" /\ analyzer.counts.files = NumWorks
    /\ entropy' = EnEntropies(analyzer)
    /\ plots' = IF EntropyRaised(entropy') THEN plots ELSE create_plots(analyzer)
    /\ pc' = IF EntropyRaised(entropy') THEN "entropy_raised"
             ELSE IF plots'.raised THEN "plot_raised"
             ELSE "done"
    /\ UNCHANGED <<prog, i, read, text, pipeline, analyzer, results, fed, table, k, top>>

Next ==
    \/ ZhYield
    \/ ZhReadError
    \/ ZhReport
    \/ EnYield
    \/ EnReadError
    \/ EnReport

Spec == Init /\ [][Next]_vars

----------------------------------------------------------------------------
(* Three blocks accumulated into a fresh accumulator, in the order they come *)

InitOrder ==
    /\ Init
    /\ pc = "loop"

ZhAccumulate ==
    /\ prog = "zh" /\ Len(fed) < 3
    /\ \E raw \in ZhTexts(MaxOrderChars - read) :
         /\ text' = Clean(raw)
         /\ pipeline' = process_text(pipeline, raw)
         /\ read' = read + Len(raw)
         /\ fed' = Append(fed, raw)
    /\ i' = i + 1
    /\ UNCHANGED <<prog, pc, analyzer, results, entropy, plots, table, k, top>>

EnAccumulate ==
    /\ prog = "en" /\ Len(fed) < 3
    /\ \E raw \in EnTexts(MaxOrderChars - read) :
         /\ analyzer' = process(analyzer, raw)
         /\ read' = read + Len(raw)
         /\ fed' = Append(fed, raw)
    /\ UNCHANGED <<prog, pc, i, text, pipeline, results, entropy, plots, table, k, top>>

NextOrder ==
    \/ ZhAccumulate
    \/ EnAccumulate

SpecOrder == InitOrder /\ [][NextOrder]_vars

----------------------------------------------------------------------------
(* most_common(k) of a table, for every k *)

TopKeys == {97, 98, 99}

\* the Counters over TopKeys with counts up to MaxCount, in every insertion order
Tables ==
    {c \in SeqsUpTo([key : TopKeys, n : 1..MaxCount], Cardinality(TopKeys)) :
        \A a, b \in 1..Len(c) : a # b => c[a].key # c[b].key}

InitTopK ==
    /\ prog = "en"
    /\ pc = "top_k"
    /\ i = 0
    /\ read = 0
    /\ text = <<>>
    /\ pipeline = NewPipeline
    /\ analyzer = NewAnalyzer
    /\ results = NoResults
    /\ entropy = NoEntropies
    /\ plots = NoPlots
    /\ fed = <<>>
    /\ table \in Tables
    /\ k \in 0..MaxK
    /\ top = <<>>

TopK ==
    /\ pc = "top_k"
    /\ top' = most_common(table, k)
    /\ pc' = "done"
    /\ UNCHANGED <<prog, i, read, text, pipeline, analyzer, results, entropy, plots,
                   fed, table, k>>

SpecTopK == InitTopK /\ [][TopK]_vars

----------------------------------------------------------------------------
(* Properties *)

Reported == pc \in {"done", "plot_raised", "entropy_raised"}

Total(counter) == SumSeq(Values(counter))

\* C1: after every accumulation step each running total is the sum of the
\* values of its frequency table (characters, words, sentences in
\* ProcessingPipeline; characters and words in LinguisticAnalyzer).
C1_TotalsMatchTables ==
    /\ pipeline.total_chars = Total(pipeline.char_counter)
    /\ pipeline.total_words = Total(pipeline.word_counter)
    /\ pipeline.total_sentences = Total(pipeline.sentence_counter)
    /\ analyzer.counts.chars = Total(analyzer.char_stats)
    /\ analyzer.counts.words = Total(analyzer.word_stats)

C1_Witness ==
    \/ /\ prog = "zh" /\ i = 3
       /\ pipeline.total_chars >= 4
       /\ pipeline.total_sentences >= 3
       /\ Len(pipeline.word_counter) >= 2
       /\ pipeline.total_words > Len(pipeline.word_counter)
    \/ /\ prog = "en" /\ analyzer.counts.files = 3
       /\ analyzer.counts.words >= 2
       /\ analyzer.counts.chars >= 5

\* a Counter as the mapping it is: the order of insertion does not count
Items(counter) == {counter[j] : j \in 1..Len(counter)}

SamePipeline(p, q) ==
    /\ Items(p.char_counter) = Items(q.char_counter)
    /\ Items(p.word_counter) = Items(q.word_counter)
    /\ Items(p.sentence_counter) = Items(q.sentence_counter)
    /\ p.total_chars = q.total_chars
    /\ p.total_words = q.total_words
    /\ p.total_sentences = q.total_sentences

SameAnalyzer(a, b) ==
    /\ Items(a.char_stats) = Items(b.char_stats)
    /\ Items(a.word_stats) = Items(b.word_stats)
    /\ a.counts = b.counts

RECURSIVE FoldZh(_, _)
FoldZh(p, blocks) ==
    IF blocks = <<>> THEN p ELSE FoldZh(process_text(p, Head(blocks)), Tail(blocks))

RECURSIVE FoldEn(_, _)
FoldEn(a, blocks) ==
    IF blocks = <<>> THEN a ELSE FoldEn(process(a, Head(blocks)), Tail(blocks))

Orders == {o \in [1..3 -> 1..3] : \A a, b \in 1..3 : a # b => o[a] # o[b]}

Reorder(blocks, o) == [j \in 1..3 |-> blocks[o[j]]]

\* C2: three blocks accumulated into a fresh accumulator give, in every one of
\* their six orders, and as the first two followed by the third, the same
\* tables and the same totals as in the order they were accumulated in.
C2_OrderIndependent ==
    Len(fed) = 3 =>
        /\ \A o \in Orders :
             IF prog = "zh"
             THEN SamePipeline(FoldZh(NewPipeline, Reorder(fed, o)), pipeline)
             ELSE SameAnalyzer(FoldEn(NewAnalyzer, Reorder(fed, o)), analyzer)
        /\ IF prog = "zh"
           THEN SamePipeline(
                    FoldZh(FoldZh(NewPipeline, SubSeq(fed, 1, 2)), SubSeq(fed, 3, 3)),
                    pipeline)
           ELSE SameAnalyzer(
                    FoldEn(FoldEn(NewAnalyzer, SubSeq(fed, 1, 2)), SubSeq(fed, 3, 3)),
                    analyzer)

\* three different blocks that share units, and tables whose insertion order
\* depends on the order of the blocks
C2_Witness ==
    /\ Len(fed) = 3
    /\ fed[1] # fed[2] /\ fed[2] # fed[3] /\ fed[1] # fed[3]
    /\ \/ /\ prog = "zh"
          /\ Len(pipeline.char_counter) = 2
          /\ pipeline.total_chars = 4
          /\ FoldZh(NewPipeline, Reorder(fed, <<3, 2, 1>>)).char_counter
                 # pipeline.char_counter
       \/ /\ prog = "en"
          /\ Len(analyzer.char_stats) = 2
          /\ analyzer.counts.words >= 1
          /\ FoldEn(NewAnalyzer, Reorder(fed, <<3, 2, 1>>)).char_stats
                 # analyzer.char_stats

Extends(old, new) ==
    \A u \in Keys(old) : u \in Keys(new) /\ Get(new, u) >= Get(old, u)

\* C3: across every step no key of a frequency table disappears, no count
\* falls and no running total falls.
C3_OnlyExtends ==
    [][/\ Extends(pipeline.char_counter, pipeline'.char_counter)
       /\ Extends(pipeline.word_counter, pipeline'.word_counter)
       /\ Extends(pipeline.sentence_counter, pipeline'.sentence_counter)
       /\ pipeline'.total_chars >= pipeline.total_chars
       /\ pipeline'.total_words >= pipeline.total_words
       /\ pipeline'.total_sentences >= pipeline.total_sentences
       /\ Extends(analyzer.char_stats, analyzer'.char_stats)
       /\ Extends(analyzer.word_stats, analyzer'.word_stats)
       /\ analyzer'.counts.chars >= analyzer.counts.chars
       /\ analyzer'.counts.words >= analyzer.counts.words]_vars

\* a later call has met keys that an earlier call had put in the tables
C3_Witness ==
    \/ /\ prog = "zh" /\ i >= 2
       /\ \E j \in 1..Len(pipeline.sentence_counter) :
            pipeline.sentence_counter[j].n >= 2
       /\ \E j \in 1..Len(pipeline.char_counter) : pipeline.char_counter[j].n >= 3
    \/ /\ prog = "en" /\ analyzer.counts.files >= 2
       /\ \E j \in 1..Len(analyzer.word_stats) : analyzer.word_stats[j].n >= 2

\* the number of non-empty fragments between the full stops of t: the
\* positions where a fragment starts
FragmentCount(t) ==
    Cardinality({p \in 1..Len(t) :
                    t[p] # FullStop /\ (p = 1 \/ t[p - 1] = FullStop)})

\* C4: every process_text call raises total_sentences by the number of
\* non-empty fragments between the full stops of the cleaned block, and the
\* empty string is never a key of the sentence table.
C4_EmptyFragmentsDropped ==
    [][(prog = "zh" /\ i' = i + 1) =>
          /\ pipeline'.total_sentences
                 = pipeline.total_sentences + FragmentCount(text')
          /\ <<>> \notin Keys(pipeline'.sentence_counter)]_vars

\* a block with a leading, two adjacent and a trailing full stop
C4_Witness ==
    /\ prog = "zh" /\ i = 1
    /\ Len(text) = 6
    /\ text[1] = FullStop /\ text[3] = FullStop /\ text[4] = FullStop
    /\ text[6] = FullStop
    /\ pipeline.total_sentences = 2
    /\ Len(pipeline.sentence_counter) = 2

\* C5: a block that cannot be read does not end the run: the run goes on to
\* its end-of-run results.
C5_ReadFailureSkipped == pc # "aborted"

EmptyTableAtReport ==
    \/ prog = "zh" /\ (pipeline.char_counter = <<>> \/ pipeline.word_counter = <<>>)
    \/ prog = "en" /\ (analyzer.char_stats = <<>> \/ analyzer.word_stats = <<>>)

\* C6: with an empty frequency table at the end of the run, the plotting step
\* that takes its top-k pairs and its rank-frequency series does not raise.
C6_EmptyTableNotFatal == EmptyTableAtReport => pc # "plot_raised"

RankFrequencyOK(zipf, counter, total) ==
    LET ranks == zipf[1]
        freq == zipf[2]
    IN  /\ Len(freq) = Cardinality(Keys(counter))
        /\ Len(ranks) = Len(freq)
        /\ \A j \in 1..Len(ranks) : ranks[j] = j
        /\ \A j \in 1..(Len(freq) - 1) : freq[j] >= freq[j + 1]
        /\ SumSeq(freq) = total

\* C7: every rank-frequency series the programs build has non-increasing
\* frequencies, the ranks 1..N with N the number of distinct units of the
\* table, and frequencies that add up to the running total.
C7_RankFrequency ==
    /\ (prog = "zh" /\ Reported) =>
          /\ RankFrequencyOK(results.char_zipf, pipeline.char_counter,
                             pipeline.total_chars)
          /\ RankFrequencyOK(results.word_zipf, pipeline.word_counter,
                             pipeline.total_words)
    /\ (prog = "en" /\ pc = "done") =>
          /\ RankFrequencyOK(plots.char_zipf, analyzer.char_stats,
                             analyzer.counts.chars)
          /\ RankFrequencyOK(plots.word_zipf, analyzer.word_stats,
                             analyzer.counts.words)

\* a series whose frequencies were not in descending order in the table
C7_Witness ==
    \/ /\ prog = "en" /\ pc = "done"
       /\ Len(analyzer.char_stats) = 2
       /\ analyzer.char_stats[1].n < analyzer.char_stats[2].n
       /\ Len(plots.word_zipf[2]) >= 2
    \/ /\ prog = "zh" /\ Reported
       /\ Len(pipeline.word_counter) = 3
       /\ pipeline.word_counter[1].n < pipeline.word_counter[3].n

Index(counter, it) == CHOOSE j \in 1..Len(counter) : counter[j] = it

\* C8: most_common(k) returns items of the table in descending order of
\* count, min(k, number of distinct units) of them, none twice, none smaller
\* than an item left out, and items of equal count in the order of the table.
C8_TopK ==
    pc = "done" =>
        /\ Len(top) = Min(k, Cardinality(Keys(table)))
        /\ \A j \in 1..Len(top) : top[j] \in Items(table)
        /\ \A a, b \in 1..Len(top) : a # b => top[a].key # top[b].key
        /\ \A j \in 1..(Len(top) - 1) : top[j].n >= top[j + 1].n
        /\ \A it \in Items(table) :
             (\A j \in 1..Len(top) : top[j] # it) =>
                 \A j \in 1..Len(top) : top[j].n >= it.n
        /\ \A a, b \in 1..Len(top) :
             (a < b /\ top[a].n = top[b].n) =>
                 Index(table, top[a]) < Index(table, top[b])

\* k smaller than the table, ties inside and at the cut, and a table that is
\* not already in descending order
C8_Witness ==
    /\ pc = "done"
    /\ k = 2 /\ Len(table) = 3 /\ Len(top) = 2
    /\ table[1].n < table[2].n /\ table[2].n = table[3].n

EmptyEntropyOK(counter, total, e) ==
    (counter = <<>> /\ total = 0) => (~e.raised /\ e.probs = <<>>)

\* C9: calculate_entropy on an empty table with total 0 does not raise and
\* returns the 0.0 it started from, and the step that computes the entropies
\* leaves the tables and the totals as they were.
C9_EmptyEntropy ==
    [][(pc = "loop" /\ pc' \in {"done", "plot_raised", "entropy_raised"}) =>
          /\ pipeline' = pipeline
          /\ analyzer' = analyzer
          /\ pc' # "entropy_raised"
          /\ prog = "zh" =>
                /\ EmptyEntropyOK(pipeline.char_counter, pipeline.total_chars,
                                  entropy'.char)
                /\ EmptyEntropyOK(pipeline.word_counter, pipeline.total_words,
                                  entropy'.word)
                /\ EmptyEntropyOK(pipeline.sentence_counter,
                                  pipeline.total_sentences, entropy'.sentence)
          /\ prog = "en" =>
                /\ EmptyEntropyOK(analyzer.char_stats, analyzer.counts.chars,
                                  entropy'.char)
                /\ EmptyEntropyOK(analyzer.word_stats, analyzer.counts.words,
                                  entropy'.word)]_vars

\* the entropies of empty tables have been computed, beside one of a table
\* that is not empty
C9_Witness ==
    \/ /\ prog = "zh" /\ Reported /\ i = 2
       /\ pipeline.sentence_counter = <<>> /\ pipeline.total_sentences = 0
       /\ entropy.sentence = NoEntropy
    \/ /\ prog = "en" /\ Reported
       /\ analyzer.word_stats = <<>> /\ analyzer.counts.words = 0
       /\ analyzer.char_stats # <<>>
       /\ entropy.word = NoEntropy /\ entropy.char # NoEntropy

RECURSIVE SentenceChars(_)
SentenceChars(counter) ==
    IF counter = <<>> THEN 0
    ELSE Len(Head(counter).key) * Head(counter).n + SentenceChars(Tail(counter))

\* C10: in ProcessingPipeline total_chars is the sum over the sentence table
\* of len(sentence) * count, and the full stop is never a key of the
\* character table.
C10_CharsInSentences ==
    /\ pipeline.total_chars = SentenceChars(pipeline.sentence_counter)
    /\ FullStop \notin Keys(pipeline.char_counter)

C10_Witness ==
    /\ prog = "zh" /\ i = 2
    /\ Len(text) = 4 /\ text[2] = FullStop
    /\ \E j \in 1..Len(pipeline.sentence_counter) :
         /\ pipeline.sentence_counter[j].n = 2
         /\ Len(pipeline.sentence_counter[j].key) = 2
    /\ pipeline.total_chars = 5

====
